---- MODULE Spec2Model ----
(***************************************************************************)
(* Model of project/knowledge/minesweeper/minesweeper.py: the Minesweeper  *)
(* board (mine set, nearby_mines), the Sentence algebra and the            *)
(* MinesweeperAI knowledge base with its derivation loop update_knowledge. *)
(* One action per public operation of MinesweeperAI; every action models   *)
(* the whole call, the derivation loop included.                           *)
(***************************************************************************)
EXTENDS Integers, Sequences, FiniteSets

VARIABLES board, moves_made, mines, safes, knowledge, call, valid, ret, rounds, converged

vars == <<board, moves_made, mines, safes, knowledge, call, valid, ret, rounds, converged>>

(* ---- bounds of the model ---- *)
Height == 3
Width == 3
MaxMines == 2
MaxMoves == 3
MaxFree == 1
MaxSentences == 3

(* ---- program constants ---- *)
max_iterations == 100

Cells == (0 .. Height - 1) \X (0 .. Width - 1)

(* arguments a careless caller may pass to add_knowledge *)
UncheckedCells == Cells \cup {<<-1, 0>>, <<Height - 1, Width>>}
UncheckedCounts == {0, 1, 9}

(* Python's None where a Sentence is expected (infer_from_sentences) and   *)
(* where a cell is expected (make_safe_move, make_random_move)             *)
None == [none |-> TRUE]
NoMove == <<>>

(* ---- Minesweeper (the board) ---- *)

(* Minesweeper.nearby_mines: mines within one row and column of cell, the  *)
(* cell itself excluded, out-of-bounds positions ignored.                  *)
nearby_mines(b, cell) ==
  Cardinality({c \in (cell[1] - 1 .. cell[1] + 1) \X (cell[2] - 1 .. cell[2] + 1) :
                 /\ c # cell
                 /\ 0 <= c[1] /\ c[1] < Height /\ 0 <= c[2] /\ c[2] < Width
                 /\ c \in b})

is_mine(b, cell) == cell \in b

(* ---- Sentence ---- *)

Sentence(cells, count) == [cells |-> cells, count |-> count]

(* known_mines without the test that every cell is counted *)
known_mines_positive(s) ==
  IF s.count > 0 THEN s.cells ELSE {}

known_mines(s) ==
  IF Cardinality(s.cells) = s.count /\ s.count > 0 THEN s.cells ELSE {}

(* known_safes with the test of known_mines *)
known_safes_full(s) ==
  IF Cardinality(s.cells) = s.count THEN s.cells ELSE {}

known_safes(s) ==
  IF s.count = 0 THEN s.cells ELSE {}

(* Sentence.mark_mine forgetting to lower the count *)
Sentence_mark_mine_keep_count(s, cell) ==
  IF cell \in s.cells THEN [cells |-> s.cells \ {cell}, count |-> s.count] ELSE s

Sentence_mark_mine(s, cell) ==
  IF cell \in s.cells THEN [cells |-> s.cells \ {cell}, count |-> s.count - 1] ELSE s

(* Sentence.mark_safe lowering the count as mark_mine does *)
Sentence_mark_safe_decrement(s, cell) ==
  IF cell \in s.cells THEN [cells |-> s.cells \ {cell}, count |-> s.count - 1] ELSE s

Sentence_mark_safe(s, cell) ==
  IF cell \in s.cells THEN [cells |-> s.cells \ {cell}, count |-> s.count] ELSE s

(* ---- MinesweeperAI ---- *)
(* The knowledge base is carried through the helpers as a record           *)
(* [mines, safes, knowledge, changes_made]; changes_made is the local flag *)
(* of update_knowledge.                                                    *)

mark_mine(kb, cell) ==
  [kb EXCEPT !.mines = @ \cup {cell},
             !.knowledge = [i \in DOMAIN @ |-> Sentence_mark_mine(@[i], cell)]]

(* mark_safe assigning the set instead of adding to it *)
mark_safe_assign(kb, cell) ==
  [kb EXCEPT !.safes = {cell},
             !.knowledge = [i \in DOMAIN @ |-> Sentence_mark_safe(@[i], cell)]]

(* mark_safe recording the cell without telling the sentences *)
mark_safe_sets_only(kb, cell) ==
  [kb EXCEPT !.safes = @ \cup {cell}]

mark_safe(kb, cell) ==
  [kb EXCEPT !.safes = @ \cup {cell},
             !.knowledge = [i \in DOMAIN @ |-> Sentence_mark_safe(@[i], cell)]]

(* get_neighbors looking at the four orthogonal neighbours only *)
get_neighbors_orthogonal(cell) ==
  {n \in {<<cell[1] + di, cell[2] + dj>> : di \in {-1, 0, 1}, dj \in {-1, 0, 1}} :
     /\ n # cell
     /\ (n[1] = cell[1] \/ n[2] = cell[2])
     /\ 0 <= n[1] /\ n[1] < Height /\ 0 <= n[2] /\ n[2] < Width}

get_neighbors(cell) ==
  {n \in {<<cell[1] + di, cell[2] + dj>> : di \in {-1, 0, 1}, dj \in {-1, 0, 1}} :
     /\ n # cell
     /\ 0 <= n[1] /\ n[1] < Height /\ 0 <= n[2] /\ n[2] < Width}

(* infer_from_sentences without the elif branch *)
infer_from_sentences_one_way(s1, s2) ==
  IF s1.cells \subseteq s2.cells
    THEN Sentence(s2.cells \ s1.cells, s2.count - s1.count)
  ELSE None

infer_from_sentences(s1, s2) ==
  IF s1.cells \subseteq s2.cells
    THEN Sentence(s2.cells \ s1.cells, s2.count - s1.count)
  ELSE IF s2.cells \subseteq s1.cells
    THEN Sentence(s1.cells \ s2.cells, s1.count - s2.count)
  ELSE None

(* `x in list`: Sentence.__eq__ compares cells and count *)
InKnowledge(s, k) == \E i \in DOMAIN k : k[i] = s

(* update_knowledge, lines 171-174: for mine in new_mines *)
RECURSIVE MarkNewMines(_, _)
MarkNewMines(kb, new_mines) ==
  IF new_mines = {} THEN kb
  ELSE LET mine == CHOOSE c \in new_mines : TRUE
           kb2 == IF mine \notin kb.mines
                    THEN [mark_mine(kb, mine) EXCEPT !.changes_made = TRUE]
                    ELSE kb
       IN MarkNewMines(kb2, new_mines \ {mine})

(* the marking of new safes forgetting changes_made = True *)
RECURSIVE MarkNewSafes_no_change(_, _)
MarkNewSafes_no_change(kb, new_safes) ==
  IF new_safes = {} THEN kb
  ELSE LET safe == CHOOSE c \in new_safes : TRUE
           kb2 == IF safe \notin kb.safes THEN mark_safe(kb, safe) ELSE kb
       IN MarkNewSafes_no_change(kb2, new_safes \ {safe})

(* update_knowledge, lines 175-178: for safe in new_safes *)
RECURSIVE MarkNewSafes(_, _)
MarkNewSafes(kb, new_safes) ==
  IF new_safes = {} THEN kb
  ELSE LET safe == CHOOSE c \in new_safes : TRUE
           kb2 == IF safe \notin kb.safes
                    THEN [mark_safe(kb, safe) EXCEPT !.changes_made = TRUE]
                    ELSE kb
       IN MarkNewSafes(kb2, new_safes \ {safe})

(* update_knowledge, lines 167-178: direct extraction over a copy of the   *)
(* list; the sentences are shared objects, so sentence i is read as it is  *)
(* when its turn comes.                                                    *)
RECURSIVE DirectExtraction(_, _)
DirectExtraction(kb, i) ==
  IF i > Len(kb.knowledge) THEN kb
  ELSE LET sentence == kb.knowledge[i]
           new_mines == known_mines(sentence)
           new_safes == known_safes(sentence)
       IN DirectExtraction(MarkNewSafes(MarkNewMines(kb, new_mines), new_safes), i + 1)

(* update_knowledge, line 181 *)
RemoveEmpty(kb) ==
  [kb EXCEPT !.knowledge = SelectSeq(@, LAMBDA s : Cardinality(s.cells) > 0)]

(* update_knowledge, lines 185-189: s2 ranges over the slice taken when    *)
(* the outer loop reached s1; appends go to the live list.                 *)
RECURSIVE InferInner(_, _, _, _)
InferInner(kb, s1, slice, j) ==
  IF j > Len(slice) THEN kb
  ELSE LET inferred == infer_from_sentences(s1, slice[j])
           kb2 == IF inferred # None /\ ~InKnowledge(inferred, kb.knowledge)
                    THEN [kb EXCEPT !.knowledge = Append(@, inferred),
                                    !.changes_made = TRUE]
                    ELSE kb
       IN InferInner(kb2, s1, slice, j + 1)

(* update_knowledge, lines 186-189: one pass of the inner loop body for    *)
(* the pair (s1, s2)                                                       *)
AppendInferred(k, s1, s2) ==
  LET inferred == infer_from_sentences(s1, s2)
  IN IF inferred # None /\ ~InKnowledge(inferred, k)
       THEN Append(k, inferred)
       ELSE k

(* update_knowledge, line 184: enumerate over the live list, which grows   *)
(* while it is scanned.                                                    *)
RECURSIVE InferOuter(_, _)
InferOuter(kb, i) ==
  IF i > Len(kb.knowledge) THEN kb
  ELSE InferOuter(InferInner(kb, kb.knowledge[i],
                             SubSeq(kb.knowledge, i + 1, Len(kb.knowledge)), 1),
                  i + 1)

(* update_knowledge, line 192: set.intersection over the cells of every sentence *)
RECURSIVE IntersectCells(_, _)
IntersectCells(k, i) ==
  IF i = Len(k) THEN k[i].cells
  ELSE k[i].cells \cap IntersectCells(k, i + 1)

(* update_knowledge, lines 193-201 *)
RECURSIVE MarkCommon(_, _)
MarkCommon(kb, all_cells) ==
  IF all_cells = {} THEN kb
  ELSE LET cell == CHOOSE c \in all_cells : TRUE
           holders == {i \in DOMAIN kb.knowledge : cell \in kb.knowledge[i].cells}
           kb2 == IF \A i \in holders :
                       kb.knowledge[i].count = Cardinality(kb.knowledge[i].cells)
                    THEN IF cell \notin kb.mines
                           THEN [mark_mine(kb, cell) EXCEPT !.changes_made = TRUE]
                           ELSE kb
                  ELSE IF \A i \in holders : kb.knowledge[i].count = 0
                    THEN IF cell \notin kb.safes
                           THEN [mark_safe(kb, cell) EXCEPT !.changes_made = TRUE]
                           ELSE kb
                  ELSE kb
       IN MarkCommon(kb2, all_cells \ {cell})

(* update_knowledge, lines 192-201 *)
CommonCells(kb) ==
  MarkCommon(kb, IF Len(kb.knowledge) > 0 THEN IntersectCells(kb.knowledge, 1) ELSE {})

(* one pass of the body of the for loop, lines 164-201 *)
Round(kb) ==
  CommonCells(InferOuter(RemoveEmpty(DirectExtraction(
      [kb EXCEPT !.changes_made = FALSE], 1)), 1))

(* the for loop with the break test inverted: left after a round that      *)
(* reports a change                                                        *)
Iteration_break_on_change(st) ==
  IF st.broke \/ st.rounds = max_iterations THEN st
  ELSE LET kb2 == Round(st)
       IN IF kb2.changes_made
            THEN [kb2 EXCEPT !.rounds = @ + 1, !.broke = TRUE]
            ELSE [kb2 EXCEPT !.rounds = max_iterations]

(* update_knowledge, lines 163-204, one iteration of the for loop: a round *)
(* and the break test of lines 203-204. broke records that the loop was    *)
(* left by the break, rounds counts the rounds run. A round is a function  *)
(* of mines, safes and knowledge alone: a round that reports a change and  *)
(* yet hands back the state it was given repeats unchanged in every        *)
(* remaining iteration, so the range is then exhausted at once with that   *)
(* state.                                                                  *)
Iteration(st) ==
  IF st.broke \/ st.rounds = max_iterations THEN st
  ELSE LET kb2 == Round(st)
       IN IF ~kb2.changes_made
            THEN [kb2 EXCEPT !.rounds = @ + 1, !.broke = TRUE]
          ELSE IF /\ kb2.mines = st.mines /\ kb2.safes = st.safes
                  /\ kb2.knowledge = st.knowledge
            THEN [kb2 EXCEPT !.rounds = max_iterations]
          ELSE [kb2 EXCEPT !.rounds = @ + 1]

(* n consecutive iterations of the for loop (split in halves to keep the   *)
(* evaluation shallow)                                                     *)
RECURSIVE Iterations(_, _)
Iterations(st, n) ==
  IF st.broke \/ st.rounds = max_iterations \/ n = 0 THEN st
  ELSE IF n = 1 THEN Iteration(st)
  ELSE Iterations(Iterations(st, n \div 2), n - (n \div 2))

(* update_knowledge, lines 161-204: for _ in range(max_iterations)         *)
update_knowledge(m, s, k) ==
  Iterations([mines |-> m, safes |-> s, knowledge |-> k, changes_made |-> FALSE,
              rounds |-> 0, broke |-> FALSE], max_iterations)

(* add_knowledge building the sentence without leaving out known mines *)
BeforeUpdate_keep_mines(cell, count) ==
  LET kb1 == mark_safe([mines |-> mines, safes |-> safes, knowledge |-> knowledge,
                        changes_made |-> FALSE], cell)
      neighbors == get_neighbors(cell)
      unknown_neighbors == neighbors \ kb1.safes
      new_sentence == Sentence(unknown_neighbors,
                               count - Cardinality(neighbors \cap kb1.mines))
  IN IF Cardinality(new_sentence.cells) > 0
       THEN [kb1 EXCEPT !.knowledge = Append(@, new_sentence)]
       ELSE kb1

(* add_knowledge keeping the full count although known mines are left out *)
BeforeUpdate_full_count(cell, count) ==
  LET kb1 == mark_safe([mines |-> mines, safes |-> safes, knowledge |-> knowledge,
                        changes_made |-> FALSE], cell)
      neighbors == get_neighbors(cell)
      unknown_neighbors == (neighbors \ kb1.safes) \ kb1.mines
      new_sentence == Sentence(unknown_neighbors, count)
  IN IF Cardinality(new_sentence.cells) > 0
       THEN [kb1 EXCEPT !.knowledge = Append(@, new_sentence)]
       ELSE kb1

(* add_knowledge without the call of mark_safe for the observed cell *)
BeforeUpdate_cell_not_safe(cell, count) ==
  LET kb1 == [mines |-> mines, safes |-> safes, knowledge |-> knowledge,
              changes_made |-> FALSE]
      neighbors == get_neighbors(cell)
      unknown_neighbors == (neighbors \ kb1.safes) \ kb1.mines
      new_sentence == Sentence(unknown_neighbors,
                               count - Cardinality(neighbors \cap kb1.mines))
  IN IF Cardinality(new_sentence.cells) > 0
       THEN [kb1 EXCEPT !.knowledge = Append(@, new_sentence)]
       ELSE kb1

(* add_knowledge, lines 148-157: the state handed to update_knowledge *)
BeforeUpdate(cell, count) ==
  LET kb1 == mark_safe([mines |-> mines, safes |-> safes, knowledge |-> knowledge,
                        changes_made |-> FALSE], cell)
      neighbors == get_neighbors(cell)
      unknown_neighbors == (neighbors \ kb1.safes) \ kb1.mines
      new_sentence == Sentence(unknown_neighbors,
                               count - Cardinality(neighbors \cap kb1.mines))
  IN IF Cardinality(new_sentence.cells) > 0
       THEN [kb1 EXCEPT !.knowledge = Append(@, new_sentence)]
       ELSE kb1

(* add_knowledge, lines 147-159 *)
add_knowledge(cell, count) ==
  LET kb == BeforeUpdate(cell, count)
      r == update_knowledge(kb.mines, kb.safes, kb.knowledge)
  IN /\ moves_made' = moves_made \cup {cell}
     /\ mines' = r.mines
     /\ safes' = r.safes
     /\ knowledge' = r.knowledge
     /\ rounds' = r.rounds
     /\ converged' = r.broke

(* make_safe_move without leaving out the moves made *)
make_safe_move_any_safe(s, mm) ==
  IF s # {} THEN s ELSE {NoMove}

(* make_safe_move, lines 217-219: the moves random.choice may return *)
make_safe_move(s, mm) ==
  LET safe_moves == s \ mm
  IN IF safe_moves # {} THEN safe_moves ELSE {NoMove}

(* make_random_move without leaving out the known mines *)
make_random_move_keep_mines(mm, m) ==
  LET all_moves == (0 .. Height - 1) \X (0 .. Width - 1)
      possible_moves == all_moves \ mm
  IN IF possible_moves # {} THEN possible_moves ELSE {NoMove}

(* make_random_move, lines 221-224: the moves random.choice may return *)
make_random_move(mm, m) ==
  LET all_moves == (0 .. Height - 1) \X (0 .. Width - 1)
      possible_moves == (all_moves \ mm) \ m
  IN IF possible_moves # {} THEN possible_moves ELSE {NoMove}

(* ---- state machine ---- *)
(* board is the Minesweeper game the AI plays; moves_made, mines, safes    *)
(* and knowledge are the fields of MinesweeperAI. call names the last      *)
(* operation run, ret is the value the last query returned, rounds and     *)
(* converged tell how the last run of update_knowledge ended (converged:   *)
(* by the break of line 204), valid tells that every add_knowledge call so *)
(* far met the preconditions of add_knowledge.                             *)

Boards == {b \in SUBSET Cells : Cardinality(b) <= MaxMines}

(* boards with at most MaxFree cells that are no mines *)
DenseBoards == {b \in SUBSET Cells : Cardinality(Cells \ b) <= MaxFree}

(* MinesweeperAI.__init__ *)
InitAI ==
  /\ moves_made = {}
  /\ mines = {}
  /\ safes = {}
  /\ knowledge = <<>>
  /\ call = "__init__"
  /\ valid = TRUE
  /\ ret = NoMove
  /\ rounds = 0
  /\ converged = TRUE

(* Minesweeper.__init__ and MinesweeperAI.__init__ *)
Init == board \in Boards /\ InitAI

InitMoves == board \in Boards \cup DenseBoards /\ InitAI

(* preconditions of add_knowledge: cell in bounds, not observed before,    *)
(* count within 0..8                                                       *)
Precondition(cell, count) ==
  /\ cell \in Cells
  /\ cell \notin moves_made
  /\ 0 <= count /\ count <= 8

(* The driver reveals a cell that is in bounds, not yet revealed and not a *)
(* mine, and reports the board's count for it. A move the AI has just      *)
(* returned is the move that is played.                                    *)
AddKnowledge ==
  \E cell \in Cells :
    /\ valid
    /\ cell \notin moves_made
    /\ ~is_mine(board, cell)
    /\ ret = NoMove \/ ret = cell
    /\ Cardinality(moves_made) < MaxMoves
    /\ add_knowledge(cell, nearby_mines(board, cell))
    /\ call' = "add_knowledge"
    /\ ret' = NoMove
    /\ UNCHANGED <<board, valid>>

(* A caller that breaks the preconditions: a cell outside the grid, a cell *)
(* observed before, or a count above 8. Left out are the calls that bring  *)
(* two counts for one cell set into the knowledge (a negative count, a     *)
(* second and different count for an observed cell): there the scan of     *)
(* lines 184-189 can keep appending sentences to the list it scans, and    *)
(* the call need not return.                                               *)
AddKnowledgeUnchecked ==
  \E cell \in UncheckedCells, count \in UncheckedCounts :
    /\ valid
    /\ ~Precondition(cell, count)
    /\ \/ cell \notin Cells /\ count \in {0, 1}
       \/ cell \in Cells \ moves_made /\ count = 9
       \/ cell \in moves_made /\ count = 0
    /\ Cardinality(moves_made) < MaxMoves
    /\ add_knowledge(cell, count)
    /\ call' = "add_knowledge"
    /\ valid' = FALSE
    /\ ret' = NoMove
    /\ UNCHANGED board

(* update_knowledge called again with no new observation *)
UpdateKnowledge ==
  LET r == update_knowledge(mines, safes, knowledge)
  IN /\ mines' = r.mines
     /\ safes' = r.safes
     /\ knowledge' = r.knowledge
     /\ rounds' = r.rounds
     /\ converged' = r.broke
     /\ call' = "update_knowledge"
     /\ UNCHANGED <<board, moves_made, valid, ret>>

MakeSafeMove ==
  /\ ret = NoMove
  /\ ret' \in make_safe_move(safes, moves_made)
  /\ call' = "make_safe_move"
  /\ UNCHANGED <<board, moves_made, mines, safes, knowledge, valid, rounds, converged>>

MakeRandomMove ==
  /\ ret = NoMove
  /\ ret' \in make_random_move(moves_made, mines)
  /\ call' = "make_random_move"
  /\ UNCHANGED <<board, moves_made, mines, safes, knowledge, valid, rounds, converged>>

(* observations and re-runs of the derivation loop *)
Next ==
  \/ AddKnowledge
  \/ UpdateKnowledge

Spec == Init /\ [][Next]_vars

(* the AI is also asked for moves *)
NextMoves ==
  \/ AddKnowledge
  \/ MakeSafeMove
  \/ MakeRandomMove

SpecMoves == InitMoves /\ [][NextMoves]_vars

(* callers that may break the preconditions of add_knowledge *)
NextUnchecked ==
  \/ AddKnowledge
  \/ AddKnowledgeUnchecked

SpecUnchecked == Init /\ [][NextUnchecked]_vars

(* ---- the operations on sentences, applied to any pair of sentences ---- *)
(* The cells the drawn sentences speak about: the first row of the board.  *)
SentenceCells == {c \in Cells : c[1] = 0}

(* Sentence.__init__ with any cells and any count from 0 to their number *)
Sentences ==
  UNION {{Sentence(cells, count) : count \in 0 .. Cardinality(cells)} :
           cells \in SUBSET SentenceCells}

(* MinesweeperAI.__init__ followed by two sentences put in the knowledge *)
InitSentences ==
  /\ board = {}
  /\ moves_made = {}
  /\ mines = {}
  /\ safes = {}
  /\ knowledge \in {<<s1, s2>> : s1 \in Sentences, s2 \in Sentences}
  /\ call = "__init__"
  /\ valid = TRUE
  /\ ret = NoMove
  /\ rounds = 0
  /\ converged = TRUE

(* MinesweeperAI.mark_mine(cell) *)
MarkMine ==
  \E cell \in SentenceCells :
    LET kb == mark_mine([mines |-> mines, safes |-> safes, knowledge |-> knowledge,
                         changes_made |-> FALSE], cell)
    IN /\ mines' = kb.mines
       /\ safes' = kb.safes
       /\ knowledge' = kb.knowledge
       /\ call' = "mark_mine"
       /\ UNCHANGED <<board, moves_made, valid, ret, rounds, converged>>

(* MinesweeperAI.mark_safe(cell) *)
MarkSafe ==
  \E cell \in SentenceCells :
    LET kb == mark_safe([mines |-> mines, safes |-> safes, knowledge |-> knowledge,
                         changes_made |-> FALSE], cell)
    IN /\ mines' = kb.mines
       /\ safes' = kb.safes
       /\ knowledge' = kb.knowledge
       /\ call' = "mark_safe"
       /\ UNCHANGED <<board, moves_made, valid, ret, rounds, converged>>

(* update_knowledge, lines 184-189: the loop body for one pair s1, s2 with *)
(* s1 stored before s2                                                     *)
InferFromSentences ==
  /\ Len(knowledge) < MaxSentences
  /\ \E i, j \in DOMAIN knowledge :
       /\ i < j
       /\ knowledge' = AppendInferred(knowledge, knowledge[i], knowledge[j])
  /\ call' = "infer_from_sentences"
  /\ UNCHANGED <<board, moves_made, mines, safes, valid, ret, rounds, converged>>

NextSentences ==
  \/ MarkMine
  \/ MarkSafe
  \/ InferFromSentences

SpecSentences == InitSentences /\ [][NextSentences]_vars

(* ---- the derivation loop over the stored sentences in any order ---- *)
(* The orders a list of n sentences can be stored in. *)
Orders(n) == {p \in [1 .. n -> 1 .. n] : \A i, j \in 1 .. n : i # j => p[i] # p[j]}

(* add_knowledge, lines 147-159, with self.knowledge holding its sentences *)
(* in the order p when update_knowledge starts                             *)
add_knowledge_in_order(cell, count, p) ==
  LET kb == BeforeUpdate(cell, count)
      r == update_knowledge(kb.mines, kb.safes,
                            [i \in DOMAIN kb.knowledge |-> kb.knowledge[p[i]]])
  IN /\ moves_made' = moves_made \cup {cell}
     /\ mines' = r.mines
     /\ safes' = r.safes
     /\ knowledge' = r.knowledge
     /\ rounds' = r.rounds
     /\ converged' = r.broke

AddKnowledgeAnyOrder ==
  \E cell \in Cells :
    /\ valid
    /\ cell \notin moves_made
    /\ ~is_mine(board, cell)
    /\ Cardinality(moves_made) < MaxMoves
    /\ \E p \in Orders(Len(BeforeUpdate(cell, nearby_mines(board, cell)).knowledge)) :
         add_knowledge_in_order(cell, nearby_mines(board, cell), p)
    /\ call' = "add_knowledge"
    /\ UNCHANGED <<board, valid, ret>>

NextOrder == AddKnowledgeAnyOrder

SpecOrder == Init /\ [][NextOrder]_vars

(* ---- properties ---- *)

(* C1: soundness. After every add_knowledge call on cells that are in      *)
(* bounds, distinct and no mines, with the board's own counts, every cell  *)
(* of mines is a mine of the board and no cell of safes is one.            *)
C1_Soundness == mines \subseteq board /\ safes \cap board = {}

(* a mine and a safe cell not yet observed have been deduced *)
C1_Witness ==
  /\ call = "add_knowledge"
  /\ Cardinality(moves_made) >= 2
  /\ mines # {}
  /\ safes \ moves_made # {}

(* C2: in every state reached by well-formed add_knowledge calls, safes    *)
(* and mines are disjoint.                                                 *)
C2_Disjoint == safes \cap mines = {}

(* two mines and some safe cells have been deduced *)
C2_Witness ==
  /\ call = "add_knowledge"
  /\ Cardinality(mines) >= 2
  /\ safes # {}

(* C3: monotonicity. No step removes a cell from safes, mines or           *)
(* moves_made, and no step moves a cell of safes into mines or a cell of   *)
(* mines into safes.                                                       *)
C3_Monotonic ==
  [][/\ safes \subseteq safes'
     /\ mines \subseteq mines'
     /\ moves_made \subseteq moves_made'
     /\ safes \cap mines' = {}
     /\ mines \cap safes' = {}]_vars

(* a later observation has added to sets that were not empty *)
C3_Witness ==
  /\ call = "add_knowledge"
  /\ Cardinality(moves_made) >= 3
  /\ Cardinality(safes) > Cardinality(moves_made)
  /\ mines # {}

(* C4: termination by convergence. Every run of update_knowledge under     *)
(* well-formed observations ends by the break of a round without change,   *)
(* never by exhausting the max_iterations rounds.                          *)
C4_Converges ==
  call \in {"add_knowledge", "update_knowledge"} => converged

(* C5: fixpoint idempotence. Running update_knowledge right after          *)
(* add_knowledge has returned leaves safes, mines, moves_made and the      *)
(* sentence list as they are.                                              *)
C5_Idempotent ==
  [][(call = "add_knowledge" /\ call' = "update_knowledge")
       => UNCHANGED <<safes, mines, moves_made, knowledge>>]_vars

(* update_knowledge has been run again on a knowledge base with sentences  *)
(* and deductions                                                          *)
C5_Witness ==
  /\ call = "update_knowledge"
  /\ Len(knowledge) >= 2
  /\ mines # {}

(* C6: make_safe_move returns a cell of safes that is not in moves_made,   *)
(* returns None exactly when safes minus moves_made is empty, and under    *)
(* well-formed observations never returns a mine of the board.             *)
C6_SafeMove ==
  call = "make_safe_move" =>
    /\ ret = NoMove <=> safes \ moves_made = {}
    /\ ret # NoMove => ret \in safes /\ ret \notin moves_made /\ ret \notin board

(* a safe move is returned on a board with mines after observations *)
C6_Witness ==
  /\ call = "make_safe_move"
  /\ ret # NoMove
  /\ board # {}
  /\ moves_made # {}

(* C7: make_random_move returns a cell of the grid that is neither in      *)
(* moves_made nor in mines, and returns None exactly when every cell of    *)
(* the grid is in moves_made or in mines.                                  *)
C7_RandomMove ==
  call = "make_random_move" =>
    /\ ret = NoMove <=> Cells \subseteq moves_made \cup mines
    /\ ret # NoMove => ret \in Cells /\ ret \notin moves_made /\ ret \notin mines

(* the grid is exhausted and None is returned *)
C7_Witness ==
  /\ call = "make_random_move"
  /\ ret = NoMove
  /\ mines # {}

(* C8: an add_knowledge call that breaks its preconditions is rejected and *)
(* leaves moves_made, safes, mines and the sentence list unchanged.        *)
C8_Rejected ==
  [][(call' = "add_knowledge" /\ valid /\ ~valid')
       => UNCHANGED <<moves_made, safes, mines, knowledge>>]_vars

(* C9: after every add_knowledge call (well-formed inputs) no cell of      *)
(* safes or mines is in the cell set of a sentence of the knowledge.       *)
C9_Projected ==
  call = "add_knowledge" =>
    \A i \in DOMAIN knowledge : knowledge[i].cells \cap (safes \cup mines) = {}

(* sentences remain beside deduced mines and deduced safe cells *)
C9_Witness ==
  /\ call = "add_knowledge"
  /\ Len(knowledge) > 0
  /\ mines # {}
  /\ safes \ moves_made # {}

(* C10: after every add_knowledge call every sentence of the knowledge has *)
(* a non-empty cell set.                                                   *)
C10_NonEmpty ==
  call = "add_knowledge" => \A i \in DOMAIN knowledge : knowledge[i].cells # {}

(* C11: after every add_knowledge call the knowledge holds no two equal    *)
(* sentences (same cells, same count).                                     *)
C11_NoDuplicates ==
  call = "add_knowledge" =>
    \A i, j \in DOMAIN knowledge : i # j => knowledge[i] # knowledge[j]

(* C12: after every add_knowledge call (well-formed inputs) every sentence *)
(* of the knowledge has 0 <= count <= |cells|.                             *)
C12_CountInRange ==
  call = "add_knowledge" =>
    \A i \in DOMAIN knowledge :
      0 <= knowledge[i].count /\ knowledge[i].count <= Cardinality(knowledge[i].cells)

(* a derived sentence lives beside the observed ones after a mine was      *)
(* taken out of them                                                       *)
C12_Witness ==
  /\ call = "add_knowledge"
  /\ Len(knowledge) >= 3
  /\ mines # {}
  /\ \E i \in DOMAIN knowledge : knowledge[i].count >= 1

(* C13: add_knowledge(cell, count) records the cell in moves_made and in   *)
(* safes, and the state it returns is the one the loop derives from the    *)
(* stored sentences without the cell plus, when it has cells, the sentence *)
(* whose cells are the in-bounds 8-neighbours in neither safes nor mines   *)
(* and whose count is count less the neighbours already in mines.  With    *)
(* nothing stored, no known mine and (1,1) the only known-safe neighbour,  *)
(* observing ((0,0), 1) leaves the one sentence {(0,1),(1,0)} = 1 and      *)
(* classifies no other cell.                                               *)
C13_AddKnowledge ==
  [][call' = "add_knowledge" /\ moves_made' # moves_made =>
       LET cell == CHOOSE c \in moves_made' \ moves_made : TRUE
           count == nearby_mines(board, cell)
           around == {c \in Cells : /\ c # cell
                                    /\ c[1] - cell[1] \in {-1, 0, 1}
                                    /\ c[2] - cell[2] \in {-1, 0, 1}}
           built == [cells |-> {c \in around : c \notin safes /\ c \notin mines},
                     count |-> count - Cardinality(around \cap mines)]
           stored == [i \in DOMAIN knowledge |->
                        [cells |-> knowledge[i].cells \ {cell},
                         count |-> knowledge[i].count]]
           handed == IF built.cells # {} THEN Append(stored, built) ELSE stored
           r == update_knowledge(mines, safes \cup {cell}, handed)
       IN /\ moves_made' = moves_made \cup {cell}
          /\ cell \in safes'
          /\ knowledge' = r.knowledge /\ safes' = r.safes /\ mines' = r.mines
          /\ (/\ cell = <<0, 0>> /\ count = 1
              /\ knowledge = <<>> /\ mines = {}
              /\ around \cap safes = {<<1, 1>>})
             => /\ knowledge' = <<[cells |-> {<<0, 1>>, <<1, 0>>}, count |-> 1]>>
                /\ safes' = safes \cup {<<0, 0>>}
                /\ mines' = {}]_vars

(* (0,0) was observed with count 1 while (1,1) was known safe, and the     *)
(* sentence {(0,1),(1,0)} = 1 is all the knowledge holds                   *)
C13_Witness ==
  /\ call = "add_knowledge"
  /\ <<0, 0>> \in moves_made
  /\ <<1, 1>> \in safes \ moves_made
  /\ mines = {}
  /\ knowledge = <<[cells |-> {<<0, 1>>, <<1, 0>>}, count |-> 1]>>

(* C14: after add_knowledge(cell, 0) every in-bounds neighbour of the cell *)
(* is in safes and none of them is left in a sentence of the knowledge;    *)
(* observing ((1,1), 0) puts all 8 surrounding cells in safes.             *)
C14_ZeroCount ==
  [][/\ call' = "add_knowledge"
     /\ moves_made' # moves_made
     /\ nearby_mines(board, CHOOSE c \in moves_made' \ moves_made : TRUE) = 0
     => LET cell == CHOOSE c \in moves_made' \ moves_made : TRUE
            around == {c \in Cells : /\ c # cell
                                     /\ c[1] - cell[1] \in {-1, 0, 1}
                                     /\ c[2] - cell[2] \in {-1, 0, 1}}
        IN /\ around \subseteq safes'
           /\ \A i \in DOMAIN knowledge' : knowledge'[i].cells \cap around = {}
           /\ cell = <<1, 1>> =>
                /\ Cardinality(around) = 8
                /\ {<<0, 0>>, <<0, 1>>, <<0, 2>>, <<1, 0>>,
                    <<1, 2>>, <<2, 0>>, <<2, 1>>, <<2, 2>>} \subseteq safes']_vars

(* (1,1) was observed with no mine around it and its 8 neighbours are safe *)
C14_Witness ==
  /\ call = "add_knowledge"
  /\ <<1, 1>> \in moves_made
  /\ nearby_mines(board, <<1, 1>>) = 0
  /\ {<<0, 0>>, <<0, 1>>, <<0, 2>>, <<1, 0>>,
      <<1, 2>>, <<2, 0>>, <<2, 1>>, <<2, 2>>} \subseteq safes

(* C15: for two sentences of which one's cells A are a subset of the       *)
(* other's cells B, in either argument order, infer_from_sentences gives   *)
(* the sentence B - A with count B.count - A.count, and nothing when       *)
(* neither is a subset of the other; the stored sentences stay as they     *)
(* were and the result is appended only if no equal sentence is stored.    *)
C15_SubsetElimination ==
  [][call' = "infer_from_sentences" =>
       \E i, j \in DOMAIN knowledge :
         /\ i < j
         /\ LET s1 == knowledge[i]
                s2 == knowledge[j]
            IN IF ~(s1.cells \subseteq s2.cells) /\ ~(s2.cells \subseteq s1.cells)
                 THEN knowledge' = knowledge
                 ELSE \E p \in {<<s1, s2>>, <<s2, s1>>} :
                        LET A == p[1]
                            B == p[2]
                            d == [cells |-> B.cells \ A.cells,
                                  count |-> B.count - A.count]
                        IN /\ A.cells \subseteq B.cells
                           /\ knowledge' =
                                IF \E k \in DOMAIN knowledge : knowledge[k] = d
                                  THEN knowledge
                                  ELSE Append(knowledge, d)]_vars

(* the second sentence's cells are a proper subset of the first's and the  *)
(* difference was appended                                                 *)
C15_Witness ==
  /\ call = "infer_from_sentences"
  /\ Len(knowledge) = 3
  /\ knowledge[2].cells \subseteq knowledge[1].cells
  /\ knowledge[2].cells # knowledge[1].cells
  /\ knowledge[3].cells = knowledge[1].cells \ knowledge[2].cells
  /\ knowledge[3].count = knowledge[1].count - knowledge[2].count
  /\ knowledge[3].count > 0

(* C16: when the sentences handed to the derivation loop hold {x, y} = 1   *)
(* and {x} = 1 over cells x, y that are in neither safes nor mines, the    *)
(* loop ends with y in safes, x in mines and neither of them in a sentence *)
(* of the knowledge.                                                       *)
C16_PairResolved ==
  [][call' = "add_knowledge" /\ moves_made' # moves_made =>
       LET cell == CHOOSE c \in moves_made' \ moves_made : TRUE
           handed == BeforeUpdate(cell, nearby_mines(board, cell))
           k == handed.knowledge
           classified == handed.safes \cup handed.mines
       IN \A i, j \in DOMAIN k :
            (/\ k[i].count = 1 /\ Cardinality(k[i].cells) = 2
             /\ k[j].count = 1 /\ Cardinality(k[j].cells) = 1
             /\ k[j].cells \subseteq k[i].cells
             /\ k[i].cells \cap classified = {})
            => /\ k[i].cells \ k[j].cells \subseteq safes'
               /\ k[j].cells \subseteq mines'
               /\ \A n \in DOMAIN knowledge' : knowledge'[n].cells \cap k[i].cells = {}]_vars

(* the scenario of the specification: {(0,1),(1,0)} = 1 is stored after    *)
(* (2,2) and (0,0) were observed, observing (0,2) adds {(0,1)} = 1, and    *)
(* the loop makes (0,1) a mine and (1,0) safe                              *)
C16_Witness ==
  /\ call = "add_knowledge"
  /\ board = {<<0, 1>>}
  /\ moves_made = {<<0, 0>>, <<0, 2>>, <<2, 2>>}
  /\ <<0, 1>> \in mines
  /\ <<1, 0>> \in safes
  /\ \A i \in DOMAIN knowledge : knowledge[i].cells \cap {<<0, 1>>, <<1, 0>>} = {}

(* C17: confluence. Whatever the order in which the sentences are stored   *)
(* when the derivation loop starts, the loop ends with the same safes, the *)
(* same mines and the same set of sentences as for the order add_knowledge *)
(* stores them in.                                                         *)
C17_Confluent ==
  [][call' = "add_knowledge" /\ moves_made' # moves_made =>
       LET cell == CHOOSE c \in moves_made' \ moves_made : TRUE
           kb == BeforeUpdate(cell, nearby_mines(board, cell))
           r == update_knowledge(kb.mines, kb.safes, kb.knowledge)
       IN /\ safes' = r.safes
          /\ mines' = r.mines
          /\ {knowledge'[i] : i \in DOMAIN knowledge'}
               = {r.knowledge[i] : i \in DOMAIN r.knowledge}]_vars

(* C18: mark_mine(cell) adds the cell to mines and, in every sentence that *)
(* holds the cell, removes it and lowers the count by 1; mark_safe(cell)   *)
(* adds the cell to safes and, in every sentence that holds the cell,      *)
(* removes it and keeps the count; a sentence without the cell keeps its   *)
(* cells and its count.                                                    *)
C18_Marks ==
  [][/\ call' = "mark_mine" =>
          \E cell \in Cells :
            /\ mines' = mines \cup {cell}
            /\ safes' = safes
            /\ DOMAIN knowledge' = DOMAIN knowledge
            /\ \A i \in DOMAIN knowledge :
                 IF cell \in knowledge[i].cells
                   THEN /\ knowledge'[i].cells = knowledge[i].cells \ {cell}
                        /\ knowledge'[i].count = knowledge[i].count - 1
                   ELSE knowledge'[i] = knowledge[i]
     /\ call' = "mark_safe" =>
          \E cell \in Cells :
            /\ safes' = safes \cup {cell}
            /\ mines' = mines
            /\ DOMAIN knowledge' = DOMAIN knowledge
            /\ \A i \in DOMAIN knowledge :
                 IF cell \in knowledge[i].cells
                   THEN /\ knowledge'[i].cells = knowledge[i].cells \ {cell}
                        /\ knowledge'[i].count = knowledge[i].count
                   ELSE knowledge'[i] = knowledge[i]]_vars

(* (0,1) was marked safe and (0,0) was marked as a mine: the first         *)
(* sentence has lost its cells, the second sentence held neither cell and  *)
(* is as it was drawn                                                      *)
C18_Witness ==
  /\ call = "mark_mine"
  /\ mines = {<<0, 0>>}
  /\ safes = {<<0, 1>>}
  /\ Len(knowledge) = 2
  /\ knowledge[1] = [cells |-> {}, count |-> 0]
  /\ knowledge[2] = [cells |-> {<<0, 2>>}, count |-> 1]

(* C19: after every add_knowledge call (well-formed inputs) no sentence    *)
(* with cells has count 0 or count equal to the number of its cells, also  *)
(* when the loop ran all of its 100 rounds.                                *)
C19_NothingPending ==
  call = "add_knowledge" =>
    \A i \in DOMAIN knowledge :
      knowledge[i].cells # {} =>
        /\ knowledge[i].count # 0
        /\ knowledge[i].count # Cardinality(knowledge[i].cells)

(* the loop ran into its cap and left sentences with cells *)
C19_Witness ==
  /\ call = "add_knowledge"
  /\ ~converged
  /\ rounds = max_iterations
  /\ \E i \in DOMAIN knowledge : knowledge[i].cells # {}

(* C20: in every state moves_made is a subset of safes, make_safe_move and *)
(* make_random_move return no cell of moves_made, and no cell of           *)
(* moves_made is in a sentence of the knowledge.                           *)
C20_Observed ==
  /\ moves_made \subseteq safes
  /\ call \in {"make_safe_move", "make_random_move"} /\ ret # NoMove
       => ret \notin moves_made
  /\ \A i \in DOMAIN knowledge : knowledge[i].cells \cap moves_made = {}

(* a move was returned while observed cells and sentences were there *)
C20_Witness ==
  /\ call \in {"make_safe_move", "make_random_move"}
  /\ ret # NoMove
  /\ Cardinality(moves_made) >= 2
  /\ knowledge # <<>>

====
